---- MODULE Spec2Model ----
(***************************************************************************)
(* Post-processing pipeline of the deepseek-ocr converter: the tag regexes *)
(* of converter.py (extract_and_embed_images, clean_text), the coordinate  *)
(* scaling done in double arithmetic, and the page loop and document       *)
(* assembly of the three front ends (converter.main, api.convert_document, *)
(* the Streamlit script app.py).                                           *)
(*                                                                         *)
(* A text is a sequence of one-character strings.                          *)
(***************************************************************************)
EXTENDS Integers, Sequences, FiniteSets, TLC

VARIABLES
    mode,      \* which entry point is exercised: "clean", "embed" or "doc"
    pc,        \* position inside that entry point
    text,      \* clean: the input s; embed, doc: the raw OCR text
    once,      \* clean: clean_text(s); embed, doc: the text after embedding
    twice,     \* clean: clean_text(clean_text(s)); embed, doc: clean_text(once)
    size,      \* embed/doc: img.size of the page image, <<width, height>>
    imgOk,     \* embed/doc: whether Image.open(image_path) succeeds
    calls,     \* embed: one record per regex match handed to replace_match
    stderr,    \* embed: number of "Warning: Failed to extract image" lines
    fe,        \* doc: the front end, "main", "api" or "app"
    kind,      \* doc: "pdf" or "image", by the suffix of the input's name
    rasterOk,  \* doc: whether pdf_to_images succeeds
    clean,     \* doc: the clean toggle (not --no-clean / clean / do_clean)
    pages,     \* doc: what run_deepseek_for_image meets on each page
    i,         \* doc: the page the loop is at (enumerate(pages, start=1))
    ocrCalls,  \* doc: page indexes handed to run_deepseek_for_image
    results,   \* doc: the list of (i, out)
    doc,       \* doc: the assembled markdown, <<>> while there is none
    written,   \* doc: whether a document was written / returned / shown
    err        \* doc: the error reported to the caller

vars == <<mode, pc, text, once, twice, size, imgOk, calls, stderr,
          fe, kind, rasterOk, clean, pages, i, ocrCalls, results, doc,
          written, err>>

-----------------------------------------------------------------------------
(* Characters and literals                                                 *)

NL == "\n"
BS == "\\"

\* \s of the re module and the characters str.strip() removes
IsSpace(c) == c \in {" ", NL, "\t", "\r", "\f"}

Digits == <<"0", "1", "2", "3", "4", "5", "6", "7", "8", "9">>

IsDigit(c) == \E d \in 1..10 : Digits[d] = c

DigitVal(c) == (CHOOSE d \in 1..10 : Digits[d] = c) - 1

\* the character class [A-Za-z0-9_+-] of the stray-tag pattern
IsNameChar(c) ==
    \/ IsDigit(c)
    \/ c \in {"a", "b", "c", "d", "e", "f", "g", "h", "i", "j", "k", "l", "m",
              "n", "o", "p", "q", "r", "s", "t", "u", "v", "w", "x", "y", "z"}
    \/ c \in {"A", "B", "C", "D", "E", "F", "G", "H", "I", "J", "K", "L", "M",
              "N", "O", "P", "Q", "R", "S", "T", "U", "V", "W", "X", "Y", "Z"}
    \/ c \in {"_", "+", "-"}

LRef == <<"<", "|", "r", "e", "f", "|", ">">>
LRefEnd == <<"<", "|", "/", "r", "e", "f", "|", ">">>
LDet == <<"<", "|", "d", "e", "t", "|", ">">>
LDetEnd == <<"<", "|", "/", "d", "e", "t", "|", ">">>
LOpen2 == <<"[", "[">>
LClose2 == <<"]", "]">>
LImage == <<"i", "m", "a", "g", "e">>

\* whether the literal lit stands in s at position p
At(s, p, lit) ==
    /\ p >= 1
    /\ p + Len(lit) - 1 <= Len(s)
    /\ \A k \in 1..Len(lit) : s[p + k - 1] = lit[k]

\* the least element of a set of positions, 0 for the empty set
MinOf(S) == IF S = {} THEN 0 ELSE CHOOSE q \in S : \A r \in S : q <= r

MaxOf(S) == IF S = {} THEN 0 ELSE CHOOSE q \in S : \A r \in S : q >= r

\* the first position >= p where lit stands in s, 0 when there is none
Find(s, p, lit) == MinOf({q \in p..(Len(s) - Len(lit) + 1) : At(s, q, lit)})

\* greedy \s*: the first position >= p that holds no whitespace
SkipSpace(s, p) ==
    IF p > Len(s) \/ ~IsSpace(s[p]) THEN p
    ELSE MinOf({q \in p..(Len(s) + 1) : q > Len(s) \/ ~IsSpace(s[q])})

Slice(s, a, b) == IF a > b THEN <<>> ELSE SubSeq(s, a, b)

-----------------------------------------------------------------------------
(* The patterns of converter.py.  Each XxxEnd(s, p) is the position just   *)
(* after the match that starts at p, or 0 when the pattern does not match  *)
(* at p.  Lazy .*? before a literal stops at the literal's first           *)
(* occurrence after which the rest of the pattern matches.                 *)

\* <\|ref\|>.*?<\|/ref\|>   (DOTALL)
RefEnd(s, p) ==
    IF ~At(s, p, LRef) THEN 0
    ELSE LET j == Find(s, p + Len(LRef), LRefEnd)
         IN  IF j = 0 THEN 0 ELSE j + Len(LRefEnd)

\* \[\[(.*?)\]\]\s*<\|/det\|> from the position q just after "[[":
\* the position of the closing "]]" (group 2 is s[q..k-1]), 0 when none
RECURSIVE CoordsClose(_, _)
CoordsClose(s, q) ==
    LET k == Find(s, q, LClose2)
    IN  IF k = 0 THEN 0
        ELSE IF At(s, SkipSpace(s, k + 2), LDetEnd) THEN k
        ELSE CoordsClose(s, k + 1)

\* <\|det\|>\s*\[\[.*?\]\]\s*<\|/det\|> at p: <<position after "[[",
\* position of "]]", position after the match>>, <<0, 0, 0>> when no match
DetSpan(s, p) ==
    IF ~At(s, p, LDet) THEN <<0, 0, 0>>
    ELSE LET o == SkipSpace(s, p + Len(LDet))
         IN  IF ~At(s, o, LOpen2) THEN <<0, 0, 0>>
             ELSE LET k == CoordsClose(s, o + 2)
                  IN  IF k = 0 THEN <<0, 0, 0>>
                      ELSE <<o + 2, k, SkipSpace(s, k + 2) + Len(LDetEnd)>>

DetEnd(s, p) == DetSpan(s, p)[3]

\* <\|/?[A-Za-z0-9_+-]+\|>
SkipName(s, p) ==
    IF p > Len(s) \/ ~IsNameChar(s[p]) THEN p
    ELSE MinOf({q \in p..(Len(s) + 1) : q > Len(s) \/ ~IsNameChar(s[q])})

\* the stray-tag pattern with * for +: an empty name matches
TagEndEmptyName(s, p) ==
    IF ~At(s, p, <<"<", "|">>) THEN 0
    ELSE LET n0 == IF At(s, p + 2, <<"/">>) THEN p + 3 ELSE p + 2
             n1 == SkipName(s, n0)
         IN  IF At(s, n1, <<"|", ">">>) THEN n1 + 2 ELSE 0

TagEnd(s, p) ==
    IF ~At(s, p, <<"<", "|">>) THEN 0
    ELSE LET n0 == IF At(s, p + 2, <<"/">>) THEN p + 3 ELSE p + 2
             n1 == SkipName(s, n0)
         IN  IF n1 > n0 /\ At(s, n1, <<"|", ">">>) THEN n1 + 2 ELSE 0

\* \\\((.*?)\\\) and \\\[(.*?)\\\]   (DOTALL): the position of the closer
MathClose(s, p, open, close) ==
    IF ~At(s, p, <<BS, open>>) THEN 0 ELSE Find(s, p + 2, <<BS, close>>)

\* \n{2,}
SkipNL(s, p) ==
    IF p > Len(s) \/ s[p] # NL THEN p
    ELSE MinOf({q \in p..(Len(s) + 1) : q > Len(s) \/ s[q] # NL})

NLEnd(s, p) == IF At(s, p, <<NL, NL>>) THEN SkipNL(s, p) ELSE 0

\* where the match of pattern pat at p ends, 0 when it does not match there
MatchEnd(pat, s, p) ==
    CASE pat = "ref" -> RefEnd(s, p)
      [] pat = "det" -> DetEnd(s, p)
      [] pat = "tag" -> TagEnd(s, p)
      [] pat = "paren" ->
            LET j == MathClose(s, p, "(", ")") IN IF j = 0 THEN 0 ELSE j + 2
      [] pat = "brack" ->
            LET j == MathClose(s, p, "[", "]") IN IF j = 0 THEN 0 ELSE j + 2
      [] pat = "nl" -> NLEnd(s, p)

\* the replacement of the match s[p..e-1] of pattern pat
Repl(pat, s, p, e) ==
    CASE pat \in {"ref", "det", "tag"} -> <<>>
      [] pat = "paren" -> <<"$">> \o Slice(s, p + 2, e - 3) \o <<"$">>
      [] pat = "brack" -> <<"$", "$">> \o Slice(s, p + 2, e - 3) \o <<"$", "$">>
      [] pat = "nl" -> <<NL, NL>>

\* re.sub(pattern, repl, s): leftmost non-overlapping matches, in one pass
\* the start of the leftmost match at or after p, 0 when there is none
NextMatch(pat, s, p) == MinOf({q \in p..Len(s) : MatchEnd(pat, s, q) # 0})

RECURSIVE re_sub(_, _, _)
re_sub(pat, s, p) ==
    LET q == NextMatch(pat, s, p)
        e == MatchEnd(pat, s, q)
    IN  IF q = 0 THEN Slice(s, p, Len(s))
        ELSE Slice(s, p, q - 1) \o Repl(pat, s, q, e) \o re_sub(pat, s, e)

StripRefBlocks(s) == re_sub("ref", s, 1)
StripDetBlocks(s) == re_sub("det", s, 1)
StripStrayTags(s) == re_sub("tag", s, 1)
RewriteParenMath(s) == re_sub("paren", s, 1)
RewriteBracketMath(s) == re_sub("brack", s, 1)
CollapseBlankLines(s) == re_sub("nl", s, 1)

clean_text(s) ==
    CollapseBlankLines(
        RewriteBracketMath(
            RewriteParenMath(
                StripStrayTags(
                    StripDetBlocks(
                        StripRefBlocks(s))))))

-----------------------------------------------------------------------------
(* str.strip, str.split(','), int(str)                                     *)

\* the last position that holds no whitespace, 0 when there is none
LastNonSpace(s) == MaxOf({q \in 1..Len(s) : ~IsSpace(s[q])})

Strip(s) == Slice(s, SkipSpace(s, 1), LastNonSpace(s))

\* s.split(','): always at least one item, the empty text included
RECURSIVE SplitFrom(_, _)
SplitFrom(s, p) ==
    LET q == Find(s, p, <<",">>)
    IN  IF q = 0 THEN <<Slice(s, p, Len(s))>>
        ELSE <<Slice(s, p, q - 1)>> \o SplitFrom(s, q + 1)

Split(s) == SplitFrom(s, 1)

\* the digits-and-underscores body int() accepts: digits, single
\* underscores only between digits
IsIntBody(b) ==
    /\ Len(b) >= 1
    /\ IsDigit(b[1])
    /\ IsDigit(b[Len(b)])
    /\ \A k \in 1..Len(b) : IsDigit(b[k]) \/ b[k] = "_"
    /\ \A k \in 1..(Len(b) - 1) : ~(b[k] = "_" /\ b[k + 1] = "_")

RECURSIVE DecValue(_, _, _)
DecValue(b, p, acc) ==
    IF p > Len(b) THEN acc
    ELSE IF b[p] = "_" THEN DecValue(b, p + 1, acc)
    ELSE DecValue(b, p + 1, 10 * acc + DigitVal(b[p]))

\* int(c): [ok |-> FALSE] stands for ValueError
ParseInt(c) ==
    LET t == Strip(c)
        signed == Len(t) >= 1 /\ t[1] \in {"+", "-"}
        body == IF signed THEN Slice(t, 2, Len(t)) ELSE t
    IN  IF ~IsIntBody(body) THEN [ok |-> FALSE, val |-> 0]
        ELSE [ok |-> TRUE,
              val |-> IF signed /\ t[1] = "-" THEN 0 - DecValue(body, 1, 0)
                      ELSE DecValue(body, 1, 0)]

-----------------------------------------------------------------------------
(* int(x / 1000 * dimension) in IEEE double arithmetic.  x / 1000 is       *)
(* rounded to 53 bits, the product is rounded again, int() truncates.      *)
(* When 1000 does not divide x * dimension the rounding error is far       *)
(* smaller than the distance to the next integer and the result is the     *)
(* floor.  When it does, the exact product is the integer k and the        *)
(* double is k-1.999.. exactly when the quotient was rounded down by more  *)
(* than half an ulp of k allows.                                           *)

NormCanvas == 1000

RECURSIVE Pow2(_)
Pow2(n) == IF n <= 0 THEN 1 ELSE 2 * Pow2(n - 1)

RECURSIVE Pow2Mod(_)
Pow2Mod(n) == IF n <= 0 THEN 1 ELSE (2 * Pow2Mod(n - 1)) % NormCanvas

\* floor(log2(k)) for k >= 1
RECURSIVE FloorLog2(_)
FloorLog2(k) == IF k < 2 THEN 0 ELSE 1 + FloorLog2(k \div 2)

\* the least A >= 0 with n * 2^A >= 1000, for 1 <= n: minus the binary
\* exponent of n / 1000 when n < 1000
RECURSIVE NegExp(_)
NegExp(n) == IF n >= NormCanvas THEN 0 ELSE 1 + NegExp(2 * n)

\* the binary exponent of the double n / 1000, n >= 1
QuotExp(n) ==
    IF n >= NormCanvas THEN FloorLog2(n \div NormCanvas) ELSE 0 - NegExp(n)

ScaleAbs(n, dim) ==
    IF n = 0 \/ dim = 0 THEN 0
    ELSE IF (n * dim) % NormCanvas # 0 THEN (n * dim) \div NormCanvas
    ELSE LET k == (n * dim) \div NormCanvas
             a == QuotExp(n)
             \* remainder of n * 2^(52-a) / 1000: below 500 the quotient's
             \* mantissa was rounded down by r / 1000 of its last bit
             r == ((n % NormCanvas) * Pow2Mod(52 - a)) % NormCanvas
             t == FloorLog2(k)
             lim == IF k = Pow2(t) THEN NormCanvas * Pow2(t - a)
                    ELSE NormCanvas * Pow2(t - a + 1)
         IN  IF r = 0 \/ r > 500 THEN k
             ELSE IF 4 * r * dim > lim THEN k - 1 ELSE k

\* int() truncates toward zero; the double of -x is minus the double of x
Scale(n, dim) == IF n < 0 THEN 0 - ScaleAbs(0 - n, dim) ELSE ScaleAbs(n, dim)

-----------------------------------------------------------------------------
(* extract_and_embed_images                                                *)

\* <\|ref\|>(.*?)<\|/ref\|>\s*<\|det\|>\s*\[\[(.*?)\]\]\s*<\|/det\|>
\* at p, trying each "<|/ref|>" from j0 on as the end of group 1:
\* <<p, position of "<|/ref|>", position after "[[", position of "]]",
\*   position after the match>>, all 0 when there is no match at p
NoSpan == <<0, 0, 0, 0, 0>>

RECURSIVE PairFrom(_, _, _)
PairFrom(s, p, j0) ==
    LET j == Find(s, j0, LRefEnd)
    IN  IF j = 0 THEN NoSpan
        ELSE LET d == DetSpan(s, SkipSpace(s, j + Len(LRefEnd)))
             IN  IF d[3] # 0 THEN <<p, j, d[1], d[2], d[3]>>
                 ELSE PairFrom(s, p, j + 1)

PairSpan(s, p) == IF At(s, p, LRef) THEN PairFrom(s, p, p + Len(LRef)) ELSE NoSpan

\* the markup of a successful crop; the payload stands for the base64 of a
\* PNG file, which always starts with the PNG signature and holds only
\* characters of the base64 alphabet
PngB64 == <<"i", "V", "B", "O", "R", "w", "0", "K", "G", "g", "o">>

Markup ==
    <<"!", "[", "i", "m", "a", "g", "e", "]", "(", "d", "a", "t", "a", ":",
      "i", "m", "a", "g", "e", "/", "p", "n", "g", ";", "b", "a", "s", "e",
      "6", "4", ",">> \o PngB64 \o <<")">>

\* Pillow: img.crop(box) followed by cropped.save(..., format="PNG") raises
\* for a box with no pixels (crop raises ValueError for right < left or
\* lower < upper, the PNG encoder raises for an empty image)
CropSaveRaises(box) == box[3] <= box[1] \/ box[4] <= box[2]

\* lines 50-54: the parsed items of coords_str
ParsedCoords(coords_str) ==
    LET items == Split(coords_str)
    IN  [k \in 1..Len(items) |-> ParseInt(items[k])]

\* lines 62-65
ScaledBox(c, sz) ==
    <<Scale(c[1], sz[1]), Scale(c[2], sz[2]), Scale(c[3], sz[1]), Scale(c[4], sz[2])>>

\* line 45 without the test: every reference kind is cropped
IsImageRefAny(ref_type) == TRUE

\* line 45: ref_type != "image" returns the match unchanged
IsImageRef(ref_type) == ref_type = LImage

\* lines 74-76, the except branch, entered with the record r of what was
\* done so far: one warning line on stderr, the match returned unchanged
OnException(r) == [r EXCEPT !.warned = TRUE, !.repl = r.g0]

\* what replace_match does for the match m of s: the replacement text and
\* what it did on the way
replace_match(s, m, sz, ok) ==
    LET g0 == Slice(s, m[1], m[5] - 1)
        ref_type == Strip(Slice(s, m[1] + Len(LRef), m[2] - 1))
        coords_str == Strip(Slice(s, m[3], m[4] - 1))
        parsed == ParsedCoords(coords_str)
        allInt == \A k \in 1..Len(parsed) : parsed[k].ok
        coords == [k \in 1..Len(parsed) |-> parsed[k].val]
        box == ScaledBox(coords, sz)
        base == [start |-> m[1], stop |-> m[5], g0 |-> g0,
                 ref_type |-> ref_type, coords_str |-> coords_str,
                 coords |-> <<>>, opened |-> FALSE, box |-> <<>>,
                 warned |-> FALSE, repl |-> g0]
    IN  IF ~IsImageRef(ref_type) THEN base
        ELSE IF ~allInt THEN OnException(base)
        ELSE IF Len(coords) # 4 THEN [base EXCEPT !.coords = coords]
        ELSE IF ~ok THEN
            OnException([base EXCEPT !.coords = coords, !.opened = TRUE])
        ELSE IF CropSaveRaises(box) THEN
            OnException([base EXCEPT !.coords = coords, !.opened = TRUE,
                                     !.box = box])
        ELSE [base EXCEPT !.coords = coords, !.opened = TRUE, !.box = box,
                          !.repl = Markup]

\* the calls of replace_match that re.sub makes on s from position p on
NextPair(s, p) == MinOf({q \in p..Len(s) : PairSpan(s, q)[5] # 0})

RECURSIVE embed_calls(_, _, _, _)
embed_calls(s, p, sz, ok) ==
    LET q == NextPair(s, p)
        m == PairSpan(s, q)
    IN  IF q = 0 THEN <<>>
        ELSE <<replace_match(s, m, sz, ok)>> \o embed_calls(s, m[5], sz, ok)

\* the text re.sub returns: s from position p on with the matches of the
\* calls cs[k..] replaced by what replace_match returned for them
RECURSIVE embed_sub(_, _, _, _)
embed_sub(s, p, cs, k) ==
    IF k > Len(cs) THEN Slice(s, p, Len(s))
    ELSE Slice(s, p, cs[k].start - 1) \o cs[k].repl
             \o embed_sub(s, cs[k].stop, cs, k + 1)

extract_and_embed_images(s, sz, ok) == embed_sub(s, 1, embed_calls(s, 1, sz, ok), 1)


-----------------------------------------------------------------------------
(* Inputs                                                                  *)

MaxFrags == 4
MaxItems == 2
MaxPages == 3

RECURSIVE Flatten(_)
Flatten(ss) == IF ss = <<>> THEN <<>> ELSE Head(ss) \o Flatten(Tail(ss))

SeqsUpTo(S, n) == UNION {[1..k -> S] : k \in 0..n}

\* pieces of text handed to clean_text: tag openers and closers, whole tag
\* tokens, a name character, newlines and the four math delimiters
CleanFrags ==
    { <<"<", "|">>, <<"|", ">">>, <<"a">>, <<"<", "|", "a", "|", ">">>,
      LRef, LRefEnd, <<NL>>,
      <<BS, "(">>, <<BS, ")">>, <<BS, "[">>, <<BS, "]">> }

CleanInputs == {Flatten(f) : f \in SeqsUpTo(CleanFrags, MaxFrags)}

\* decimal text of an integer, as the model writes a coordinate
RECURSIVE FormatNat(_)
FormatNat(n) ==
    IF n < 10 THEN <<Digits[n + 1]>>
    ELSE FormatNat(n \div 10) \o <<Digits[(n % 10) + 1]>>

FormatInt(n) == IF n < 0 THEN <<"-">> \o FormatNat(0 - n) ELSE FormatNat(n)

CoordText(b) ==
    FormatInt(b[1]) \o <<",">> \o FormatInt(b[2]) \o <<",">>
        \o FormatInt(b[3]) \o <<",">> \o FormatInt(b[4])

\* <|ref|>VALUE<|/ref|> gap <|det|>[[COORDS]]<|/det|>
Pair(value, gap, coords) ==
    LRef \o value \o LRefEnd \o gap \o LDet \o LOpen2 \o coords \o LClose2 \o LDetEnd

\* normalized boxes: inside the canvas, reversed, outside the canvas, and
\* boxes whose scaled corners fall between pixels.  The last items of
\* EmbedItems are a pair of another kind, a pair with whitespace around
\* the value and between the blocks, an image pair cut off inside its
\* coordinate list, and plain text
Boxes ==
    { <<250, 250, 750, 750>>, <<0, 0, 1000, 1000>>, <<3, 0, 4, 1000>>,
      <<750, 250, 250, 750>>, <<-100, 0, -50, 1000>>, <<145, 290, 290, 580>> }

\* coordinate lists that are not four integers, and one that is four
\* integers once each item is stripped
OddCoords == { <<"1", ",", "2", ",", "3">>, <<"1", ",", "x", ",", "3", ",", "4">>, <<" ", "1", "0", " ", ",", " ", "2", "0", " ", ",", "3", "0", ",", " ", "4", "0", " ">> }

LTable == <<"t", "a", "b", "l", "e">>

EmbedItems ==
    {Pair(LImage, <<>>, CoordText(b)) : b \in Boxes}
        \cup {Pair(LImage, <<>>, c) : c \in OddCoords}
        \cup { Pair(LTable, <<>>, CoordText(<<250, 250, 750, 750>>)),
               Pair(<<" ">> \o LImage \o <<" ">>, <<" ", NL>>,
                    CoordText(<<250, 250, 750, 750>>)),
               LRef \o LImage \o LRefEnd \o LDet \o LOpen2 \o <<"1", ",", "2">>,
               <<"x">> }

EmbedInputs == {Flatten(f) : f \in SeqsUpTo(EmbedItems, MaxItems)}

\* img.size of the page image
Sizes == { <<1000, 1000>>, <<500, 300>>, <<200, 100>> }

\* the page image: its size and whether Image.open succeeds on it
Images ==
    {[size |-> sz, ok |-> TRUE] : sz \in Sizes}
        \cup {[size |-> <<1000, 1000>>, ok |-> FALSE]}

None == <<>>

-----------------------------------------------------------------------------
(* clean_text applied once and twice to a drawn text                       *)

InitClean ==
    /\ mode = "clean"
    /\ pc = "start"
    /\ text \in CleanInputs
    /\ once = None /\ twice = None
    /\ size = None /\ imgOk = TRUE /\ calls = None /\ stderr = 0
    /\ fe = "-" /\ kind = "-" /\ rasterOk = TRUE /\ clean = TRUE
    /\ pages = None /\ i = 0
    /\ ocrCalls = None /\ results = None /\ doc = None
    /\ written = FALSE /\ err = None

CleanOnce ==
    /\ mode = "clean" /\ pc = "start"
    /\ once' = clean_text(text)
    /\ pc' = "once"
    /\ UNCHANGED <<mode, text, twice, size, imgOk, calls, stderr, fe, kind,
                   rasterOk, clean, pages, i, ocrCalls, results, doc, written,
                   err>>

CleanTwice ==
    /\ mode = "clean" /\ pc = "once"
    /\ twice' = clean_text(once)
    /\ pc' = "twice"
    /\ UNCHANGED <<mode, text, once, size, imgOk, calls, stderr, fe, kind,
                   rasterOk, clean, pages, i, ocrCalls, results, doc, written,
                   err>>

NextClean == CleanOnce \/ CleanTwice

SpecClean == InitClean /\ [][NextClean]_vars

-----------------------------------------------------------------------------
(* One page through extract_and_embed_images and then clean_text, as every *)
(* front end does when cleaning is on                                      *)

WarnCount(cs) == Cardinality({k \in 1..Len(cs) : cs[k].warned})

InitEmbed ==
    /\ mode = "embed"
    /\ pc = "start"
    /\ text \in EmbedInputs
    /\ \E img \in Images : size = img.size /\ imgOk = img.ok
    /\ once = None /\ twice = None /\ calls = None /\ stderr = 0
    /\ fe = "-" /\ kind = "-" /\ rasterOk = TRUE /\ clean = TRUE
    /\ pages = None /\ i = 0
    /\ ocrCalls = None /\ results = None /\ doc = None
    /\ written = FALSE /\ err = None

Embed ==
    /\ mode = "embed" /\ pc = "start"
    /\ calls' = embed_calls(text, 1, size, imgOk)
    /\ once' = embed_sub(text, 1, calls', 1)
    /\ stderr' = WarnCount(calls')
    /\ pc' = "embedded"
    /\ UNCHANGED <<mode, text, twice, size, imgOk, fe, kind, rasterOk, clean,
                   pages, i, ocrCalls, results, doc, written, err>>

CleanAfter ==
    /\ mode = "embed" /\ pc = "embedded"
    /\ twice' = clean_text(once)
    /\ pc' = "cleaned"
    /\ UNCHANGED <<mode, text, once, size, imgOk, calls, stderr, fe, kind,
                   rasterOk, clean, pages, i, ocrCalls, results, doc, written,
                   err>>

NextEmbed == Embed \/ CleanAfter

SpecEmbed == InitEmbed /\ [][NextEmbed]_vars


-----------------------------------------------------------------------------
(* The page loop and the assembly of converter.main, api.convert_document  *)
(* and the Streamlit script                                                *)

FrontEnds == {"main", "api", "app"}

\* what the ollama process prints for a page
Stdouts ==
    { <<"A">>,
      Pair(<<"t">>, <<>>, CoordText(<<1, 2, 3, 4>>)) \o <<NL, "B", NL>>,
      <<"C", NL>> \o Pair(LImage, <<>>, CoordText(<<250, 250, 750, 750>>)),
      <<"D", NL>> \o Pair(<<"t">>, <<>>, CoordText(<<1, 2, 3, 4>>)) }

\* subprocess.run either returns the output or raises FileNotFoundError
\* ("notfound") or CalledProcessError ("exit")
OcrOutcomes ==
    {[ok |-> TRUE, stdout |-> o, why |-> "-"] : o \in Stdouts}
        \cup {[ok |-> FALSE, stdout |-> None, why |-> w] : w \in {"notfound", "exit"}}

\* run_deepseek_for_image on success: proc.stdout.strip()
run_deepseek_for_image(o) == Strip(o.stdout)

PageSize == <<1000, 1000>>

PdfName == <<"d", ".", "p", "d", "f">>
ImageName == <<"d", ".", "p", "n", "g">>

FileName(k) == IF k = "pdf" THEN PdfName ELSE ImageName

HeaderMain == 
    <<"<", "!", "-", "-", " ", "G", "e", "n", "e", "r", "a", "t", "e",
        "d", " ", "b", "y", " ", "c", "o", "n", "v", "e", "r", "t",
        "e", "r", ".", "p", "y", " ", "f", "r", "o", "m", " ">>

HeaderOther == 
    <<"<", "!", "-", "-", " ", "G", "e", "n", "e", "r", "a", "t", "e",
        "d", " ", "f", "r", "o", "m", " ">>

CommentEnd == <<" ", "-", "-", ">">>

\* the provenance comment line
Header(front, name) ==
    (IF front = "main" THEN HeaderMain ELSE HeaderOther) \o name \o CommentEnd

MarkerStart == <<"<", "!", "-", "-", " ", "P", "a", "g", "e", " ">>

\* <!-- Page N -->
Marker(n) == MarkerStart \o FormatInt(n) \o CommentEnd

\* the marker written for every document, single-page ones included
NeedsMarkerAlways(rs) == Len(rs) >= 1

\* if len(results) > 1
NeedsMarker(rs) == Len(rs) > 1

\* the loop over results that writes the pages
RECURSIVE Body(_, _)
Body(rs, k) ==
    IF k > Len(rs) THEN <<>>
    ELSE (IF NeedsMarker(rs) THEN Marker(rs[k][1]) \o <<NL, NL>> ELSE <<>>)
             \o rs[k][2] \o <<NL, NL>> \o Body(rs, k + 1)

Assembled(front, name, rs) == Header(front, name) \o <<NL, NL>> \o Body(rs, 1)

\* the error each front end reports: page is the page index its own
\* message names (0: none), cause the exception of run_deepseek_for_image
\* or pdf_to_images, causePage the page whose image path the cause's text
\* holds (the "Command:" line of the CalledProcessError message; 0: none),
\* statusPage the page of the progress line the Streamlit script set
\* before the call and leaves on screen (0: none)
OcrError(front, k, n, why) ==
    [by |-> front,
     stage |-> "ocr",
     page |-> IF front \in {"main", "api"} /\ k = "pdf" THEN n ELSE 0,
     cause |-> why,
     causePage |-> IF why = "exit" /\ k = "pdf" THEN n ELSE 0,
     statusPage |-> IF front = "app" /\ k = "pdf" THEN n ELSE 0]

RasterError(front) ==
    [by |-> front, stage |-> "raster", page |-> 0, cause |-> "raster",
     causePage |-> 0, statusPage |-> 0]

InitDoc ==
    /\ mode = "doc"
    /\ pc = "start"
    /\ fe \in FrontEnds
    /\ kind \in {"pdf", "image"}
    /\ rasterOk \in BOOLEAN
    /\ clean \in BOOLEAN
    /\ pages \in SeqsUpTo(OcrOutcomes, MaxPages)
    /\ Len(pages) >= 1
    /\ kind = "image" => Len(pages) = 1 /\ rasterOk
    /\ ~rasterOk => Len(pages) = 1 /\ pages[1].ok /\ pages[1].stdout = <<"A">>
    /\ i = 0
    /\ ocrCalls = None /\ results = None /\ doc = None
    /\ written = FALSE /\ err = None
    /\ text = None /\ once = None /\ twice = None
    /\ size = PageSize /\ imgOk = TRUE /\ calls = None /\ stderr = 0

\* pdf_to_images returns the page images; an image input is its own page
Rasterize ==
    /\ mode = "doc" /\ pc = "start"
    /\ kind = "pdf" => rasterOk
    /\ pc' = "loop"
    /\ i' = 1
    /\ UNCHANGED <<mode, text, once, twice, size, imgOk, calls, stderr, fe,
                   kind, rasterOk, clean, pages, ocrCalls, results, doc,
                   written, err>>

\* pdf_to_images raises
RasterFail ==
    /\ mode = "doc" /\ pc = "start"
    /\ kind = "pdf" /\ ~rasterOk
    /\ pc' = "failed"
    /\ err' = RasterError(fe)
    /\ UNCHANGED <<mode, text, once, twice, size, imgOk, calls, stderr, fe,
                   kind, rasterOk, clean, pages, i, ocrCalls, results, doc,
                   written>>

\* one iteration of the page loop in which the OCR call returns; text,
\* once and twice are the three values the loop's variable out takes
PageOk ==
    /\ mode = "doc" /\ pc = "loop"
    /\ i <= Len(pages)
    /\ pages[i].ok
    /\ ocrCalls' = Append(ocrCalls, i)
    /\ text' = run_deepseek_for_image(pages[i])
    /\ once' = IF clean THEN extract_and_embed_images(text', size, imgOk) ELSE text'
    /\ twice' = IF clean THEN clean_text(once') ELSE once'
    /\ results' = Append(results, <<i, twice'>>)
    /\ i' = i + 1
    /\ UNCHANGED <<mode, pc, size, imgOk, calls, stderr, fe, kind, rasterOk,
                   clean, pages, doc, written, err>>

\* one iteration in which the OCR call raises: main exits with status 3,
\* convert_document raises HTTPException, the Streamlit script shows
\* st.error(str(e)); none of them goes on to the assembly
PageFail ==
    /\ mode = "doc" /\ pc = "loop"
    /\ i <= Len(pages)
    /\ ~pages[i].ok
    /\ ocrCalls' = Append(ocrCalls, i)
    /\ err' = OcrError(fe, kind, i, pages[i].why)
    /\ pc' = "failed"
    /\ UNCHANGED <<mode, text, once, twice, size, imgOk, calls, stderr, fe,
                   kind, rasterOk, clean, pages, i, results, doc, written>>

\* after the loop: the document is written, returned or shown
Assemble ==
    /\ mode = "doc" /\ pc = "loop"
    /\ i > Len(pages)
    /\ doc' = Assembled(fe, FileName(kind), results)
    /\ written' = TRUE
    /\ pc' = "done"
    /\ UNCHANGED <<mode, text, once, twice, size, imgOk, calls, stderr, fe,
                   kind, rasterOk, clean, pages, i, ocrCalls, results, err>>

NextDoc == Rasterize \/ RasterFail \/ PageOk \/ PageFail \/ Assemble

SpecDoc == InitDoc /\ [][NextDoc]_vars


-----------------------------------------------------------------------------
(* Properties                                                              *)

\* s[a..b] is a tag token <|NAME|> or <|/NAME|>
IsTagToken(s, a, b) ==
    /\ At(s, a, <<"<", "|">>)
    /\ At(s, b - 1, <<"|", ">">>)
    /\ LET n0 == IF At(s, a + 2, <<"/">>) THEN a + 3 ELSE a + 2
       IN  /\ n0 <= b - 2
           /\ \A q \in n0..(b - 2) : IsNameChar(s[q])

NoTags(s) == \A a \in 1..Len(s) : \A b \in a..Len(s) : ~IsTagToken(s, a, b)

\* no \( with a later \) and no \[ with a later \]
NoMathSpan(s) ==
    \A a \in 1..Len(s) : \A b \in (a + 2)..Len(s) :
        /\ ~(At(s, a, <<BS, "(">>) /\ At(s, b, <<BS, ")">>))
        /\ ~(At(s, a, <<BS, "[">>) /\ At(s, b, <<BS, "]">>))

\* s without every newline that follows two newlines: each run of three
\* or more newlines (two or more blank lines) becomes one blank line
Squeeze(s) ==
    LET keep == {q \in 1..Len(s) :
                    ~(q >= 3 /\ s[q] = NL /\ s[q - 1] = NL /\ s[q - 2] = NL)}
        nth(k) == CHOOSE q \in keep : Cardinality({r \in keep : r <= q}) = k
    IN  [k \in 1..Cardinality(keep) |-> s[nth(k)]]

HasRun3(s) == \E q \in 1..Len(s) : At(s, q, <<NL, NL, NL>>)

\* C1: clean_text is idempotent: for every text s, applying it to its own
\* output changes nothing, also when removing a tag joins the characters
\* around it into a new tag token, ref/det block or math delimiter
C1_Idempotent == (mode = "clean" /\ pc = "twice") => twice = once

\* C9 as stated: for every text without tag tokens, clean_text changes
\* nothing but the blank-line runs
C9_IdentityButBlankLines ==
    (mode = "clean" /\ pc # "start" /\ NoTags(text)) => once = Squeeze(text)

\* C9, amended: for every text without tag tokens, clean_text only rewrites
\* the math delimiters and collapses the blank-line runs; without a math
\* span either, the output is the input with every run of three or more
\* newlines cut to two
C9_IdentityButMathAndBlankLines ==
    (mode = "clean" /\ pc # "start" /\ NoTags(text)) =>
        /\ once = Squeeze(RewriteBracketMath(RewriteParenMath(text)))
        /\ NoMathSpan(text) => once = Squeeze(text)

C9_Witness ==
    /\ mode = "clean" /\ pc = "once"
    /\ NoTags(text) /\ NoMathSpan(text)
    /\ HasRun3(text)
    /\ \E q \in 1..Len(text) : At(text, q, <<"<", "|">>)
    /\ once # text

-----------------------------------------------------------------------------

\* num / den rounded to the nearest integer, halves to the even one
RoundHalfEven(num, den) ==
    LET fl == num \div den
        rem == num % den
    IN  IF 2 * rem < den THEN fl
        ELSE IF 2 * rem > den THEN fl + 1
        ELSE IF fl % 2 = 0 THEN fl ELSE fl + 1

Clamp(v, lo, hi) == IF v < lo THEN lo ELSE IF v > hi THEN hi ELSE v

\* round(normalized / 1000 * dimension) clamped into [0, dimension]
RoundedClamped(n, dim) == Clamp(RoundHalfEven(n * dim, NormCanvas), 0, dim)

RoundedClampedBox(c, sz) ==
    <<RoundedClamped(c[1], sz[1]), RoundedClamped(c[2], sz[2]),
      RoundedClamped(c[3], sz[1]), RoundedClamped(c[4], sz[2])>>

Cropped(c) == c.box # <<>>

EmbedDone == mode = "embed" /\ pc # "start"

\* C2: the box passed to crop is round(n / 1000 * dimension)
\* clamped into [0, dimension], per coordinate
C2_RoundedClampedBox ==
    EmbedDone =>
        \A k \in 1..Len(calls) :
            Cropped(calls[k]) => calls[k].box = RoundedClampedBox(calls[k].coords, size)

Empty(b) == b[3] <= b[1] \/ b[4] <= b[2]

\* C3: a pair whose rounded and clamped box has no area gets no
\* markup and keeps its text
C3_EmptyRoundedBoxSkipped ==
    EmbedDone =>
        \A k \in 1..Len(calls) :
            (Cropped(calls[k]) /\ Empty(RoundedClampedBox(calls[k].coords, size)))
                => calls[k].repl = calls[k].g0

\* C4: an image pair whose coordinate list is not exactly four integers
\* keeps its text and leaves a warning
C4_MalformedWarned ==
    EmbedDone =>
        \A k \in 1..Len(calls) :
            (calls[k].ref_type = LImage /\ Len(calls[k].coords) # 4)
                => calls[k].repl = calls[k].g0 /\ calls[k].warned

\* a well-formed image pair with a box the page image can be cropped to
\* stands in s at q
GoodPairAt(s, q, sz) ==
    \E b \in Boxes :
        /\ ~Empty(ScaledBox(b, sz))
        /\ At(s, q, Pair(LImage, <<>>, CoordText(b)))

\* C5: a pair that is not embedded keeps its text and leaves a warning,
\* and every well-formed image pair of the text is still replaced
C5_FailureIsLocal ==
    EmbedDone =>
        /\ \A k \in 1..Len(calls) :
            (calls[k].ref_type = LImage /\ calls[k].repl # Markup)
                => calls[k].repl = calls[k].g0 /\ calls[k].warned
        /\ imgOk =>
            \A q \in 1..Len(text) :
                GoodPairAt(text, q, size) =>
                    \E k \in 1..Len(calls) :
                        calls[k].start = q /\ calls[k].repl = Markup

\* by how much the replacements of the calls before the k-th moved it
RECURSIVE Shift(_)
Shift(k) ==
    IF k <= 1 THEN 0
    ELSE Shift(k - 1) + Len(calls[k - 1].repl) - Len(calls[k - 1].g0)

\* the embedded text without the span of the k-th call
WithoutCall(k) ==
    Slice(once, 1, calls[k].start + Shift(k) - 1)
        \o Slice(once, calls[k].stop + Shift(k), Len(once))

\* C6: a pair whose reference value is not "image" is not opened or
\* cropped and is returned as it stands, and clean_text then removes it
C6_OtherKindsUntouched ==
    (mode = "embed" /\ pc # "start") =>
        \A k \in 1..Len(calls) :
            /\ calls[k].opened => calls[k].ref_type = LImage
            /\ calls[k].ref_type # LImage =>
                /\ ~calls[k].opened
                /\ ~Cropped(calls[k])
                /\ ~calls[k].warned
                /\ calls[k].repl = calls[k].g0
                /\ clean_text(calls[k].g0) = <<>>
                /\ pc = "cleaned" => twice = clean_text(WithoutCall(k))

C6_Witness ==
    /\ mode = "embed" /\ pc = "cleaned"
    /\ imgOk
    /\ Len(calls) = 2
    /\ calls[1].ref_type = LTable
    /\ calls[1].repl = calls[1].g0
    /\ calls[2].repl = Markup

-----------------------------------------------------------------------------

DocDone == mode = "doc" /\ pc = "done"

MarkerPositions == {q \in 1..Len(doc) : At(doc, q, MarkerStart)}

\* the k-th page marker of the document, from the left
NthMarker(k) ==
    CHOOSE q \in MarkerPositions :
        Cardinality({r \in MarkerPositions : r <= q}) = k

GeneratedStart == <<"<", "!", "-", "-", " ", "G", "e", "n", "e", "r", "a", "t", "e", "d">>

\* C7: the document starts with one provenance comment naming the source;
\* with more than one page every page's text directly follows its own
\* <!-- Page N --> marker and the markers come in ascending page order;
\* with one page there is no marker
C7_Assembly ==
    DocDone =>
        /\ At(doc, 1, Header(fe, FileName(kind)) \o <<NL, NL>>)
        /\ Cardinality({q \in 1..Len(doc) : At(doc, q, GeneratedStart)}) = 1
        /\ ocrCalls = [k \in 1..Len(pages) |-> k]
        /\ Len(results) = Len(pages)
        /\ Len(results) = 1 => MarkerPositions = {}
        /\ Len(results) > 1 =>
            /\ Cardinality(MarkerPositions) = Len(results)
            /\ \A k \in 1..Len(results) :
                /\ results[k][1] = k
                /\ At(doc, NthMarker(k),
                      Marker(k) \o <<NL, NL>> \o results[k][2] \o <<NL, NL>>)

C7_Witness ==
    /\ DocDone
    /\ Len(results) = 3
    /\ Cardinality(MarkerPositions) = 3
    /\ results[1][2] # results[2][2]

\* C8: with cleaning on, no more than two newlines follow one another
\* anywhere in the assembled document of several pages (clean_text leaves
\* no such run inside a page, so a run lies at a page boundary or between
\* a marker and its content)
C8_OneBlankLine == (DocDone /\ clean /\ Len(results) > 1) => ~HasRun3(doc)

\* the error names page n: in the front end's own message or in the image
\* path of the failed command (the progress line is no part of the error)
CarriesPage(e, n) == e.page = n \/ e.causePage = n

\* C10: when the OCR call fails on page i of a multi-page document, no
\* later page is processed, no document is produced and the error
\* carries i
C10_OcrFailureAborts ==
    (mode = "doc" /\ pc = "failed" /\ err.stage = "ocr" /\ Len(pages) > 1) =>
        /\ \A k \in 1..Len(ocrCalls) : ocrCalls[k] <= i
        /\ Len(results) = i - 1
        /\ ~written /\ doc = None
        /\ CarriesPage(err, i)

=============================================================================
